---- MODULE Spec2Model ----
(***************************************************************************)
(* Lockfile reading of pnpm (packages/lockfile-file/src/read.ts):          *)
(* readCurrentLockfile, readWantedLockfile,                                *)
(* readWantedLockfileAndAutofixConflicts, the shared routine _read and the *)
(* git-branch lockfile merge.                                              *)
(*                                                                         *)
(* Values.  An optional JavaScript value (undefined / null, or a value v)  *)
(* is None or Some(v).  A version string is the sequence of its dot        *)
(* separated numbers ("5.4" is <<5, 4>>): a number's toString() is the     *)
(* same sequence.  A mapping is a function on its keys.                    *)
(***************************************************************************)
EXTENDS Integers, Sequences, FiniteSets, TLC

\* The largest number of git-branch lockfiles the directory listing returns.
MaxBranchFiles == 2

None == <<>>
Some(x) == <<x>>

WANTED_LOCKFILE == "pnpm-lock.yaml"
DEPENDENCIES_FIELDS == <<"optionalDependencies", "dependencies", "devDependencies">>

\* path.join(dir, name)
join(dir, name) == <<dir, name>>

(***************************************************************************)
(* Documents: what yaml.load yields for a mapping.  Every key is optional. *)
(***************************************************************************)
EmptyDoc ==
    [lockfileVersion |-> None, importers |-> None, packages |-> None,
     specifiers |-> None, dependenciesMeta |-> None,
     optionalDependencies |-> None, dependencies |-> None,
     devDependencies |-> None]

\* An importer record in the shape the migration builds (lines 135-147).
EmptyImporter ==
    [specifiers |-> None, dependenciesMeta |-> None,
     optionalDependencies |-> None, dependencies |-> None,
     devDependencies |-> None]

(***************************************************************************)
(* comver-to-semver and the two semver functions _read uses.               *)
(***************************************************************************)
\* comverToSemver: "5" -> "5.0.0", "5.4" -> "5.4.0" (a '.' in it: append ".0").
comverToSemver(comver) ==
    IF Len(comver) > 1 THEN comver \o <<0>> ELSE comver \o <<0, 0>>

\* semver parses exactly major.minor.patch; anything else throws a TypeError.
semverValid(v) == Len(v) = 3

semverMajor(v) == v[1]

semverGt(a, b) ==
    \/ a[1] > b[1]
    \/ a[1] = b[1] /\ a[2] > b[2]
    \/ a[1] = b[1] /\ a[2] = b[2] /\ a[3] > b[3]

\* (lockfile.lockfileVersion ?? 0).toString()
versionString(lockfile) ==
    IF lockfile.lockfileVersion = None THEN <<0>> ELSE lockfile.lockfileVersion[1]

(***************************************************************************)
(* Errors and the result of one _read.                                     *)
(***************************************************************************)
Err(code, path, message) == [code |-> code, path |-> path, message |-> message]

\* new PnpmError('BROKEN_LOCKFILE', `The lockfile at "${lockfilePath}" is broken: ${err.message}`)
BrokenLockfile(lockfilePath, message) ==
    Err("ERR_PNPM_BROKEN_LOCKFILE", Some(lockfilePath), message)

\* new LockfileBreakingChangeError(lockfilePath)
LockfileBreakingChangeError(lockfilePath) ==
    Err("ERR_PNPM_LOCKFILE_BREAKING_CHANGE", Some(lockfilePath), "breaking change")

\* What semver.major throws for a string that is no semantic version.
InvalidVersion == Err("TypeError", None, "Invalid Version")

\* A _read that returned { lockfile, hadConflicts }.  log: the logger calls
\* made, resolved: whether autofixMergeConflicts was called.
Returned(lockfile, hadConflicts, log, resolved) ==
    [err |-> None, lockfile |-> lockfile, hadConflicts |-> hadConflicts,
     log |-> log, resolved |-> resolved]

\* A _read that threw e.
Threw(e, log, resolved) ==
    [err |-> Some(e), lockfile |-> None, hadConflicts |-> FALSE,
     log |-> log, resolved |-> resolved]

(***************************************************************************)
(* The outside world of one _read: what fs.readFile gives for the path     *)
(* (an error, or text), and for a text what yaml.load, isDiff and          *)
(* autofixMergeConflicts make of it.                                       *)
(***************************************************************************)
Value(v) == [err |-> None, value |-> v]
Throws(e) == [err |-> Some(e), value |-> None]

Text(load, diff, autofix) == [load |-> load, isDiff |-> diff, autofix |-> autofix]

NoText == Text(Value(None), FALSE, Value(None))

\* fs.readFile rejected with e / resolved with text.
ReadFailed(e) == [error |-> Some(e), text |-> NoText]
ReadOk(text) == [error |-> None, text |-> text]

\* yaml.load(lockfileRawContent): the parsed value, or the parser's exception.
yamlLoad(lockfileRawContent) == lockfileRawContent.load

\* isDiff(lockfileRawContent): the text has conflict markers.
isDiff(lockfileRawContent) == lockfileRawContent.isDiff

\* autofixMergeConflicts(lockfileRawContent): the resolved document, or the
\* failure of the resolution.
autofixMergeConflicts(lockfileRawContent) == lockfileRawContent.autofix

(***************************************************************************)
(* _read, lines 105-116: reading the file.                                 *)
(***************************************************************************)
\* A catch block that swallows every read error.
rethrowsMutantAll(err) == FALSE

\* TRUE when the catch block rethrows err (lines 109-111).
rethrows(err) == err.code # "ENOENT"

(***************************************************************************)
(* _read, lines 117-132: parsing, and the conflict resolution.             *)
(***************************************************************************)
\* The catch block's test (line 123), with && for ||.
givesUpMutantAnd(opts, lockfileRawContent) ==
    ~opts.autofixMergeConflicts /\ ~isDiff(lockfileRawContent)

\* TRUE when a parse failure becomes BROKEN_LOCKFILE (line 123).
givesUp(opts, lockfileRawContent) ==
    ~opts.autofixMergeConflicts \/ ~isDiff(lockfileRawContent)

\* hadConflicts left false after the resolution.
conflictFlagMutantFalse == FALSE

\* hadConflicts as line 126 sets it.
conflictFlag == TRUE

parse(lockfilePath, opts, lockfileRawContent) ==
    LET loaded == yamlLoad(lockfileRawContent)
        fixed == autofixMergeConflicts(lockfileRawContent)
    IN  IF loaded.err = None
        THEN Returned(loaded.value, FALSE, <<>>, FALSE)
        ELSE IF givesUp(opts, lockfileRawContent)
        THEN Threw(BrokenLockfile(lockfilePath, loaded.err[1].message), <<>>, FALSE)
        ELSE IF fixed.err # None
        THEN Threw(fixed.err[1], <<>>, TRUE)
        ELSE Returned(fixed.value, conflictFlag, <<"info: merge conflict merged">>, TRUE)

(***************************************************************************)
(* _read, lines 134-148: the legacy root fields move to importers['.'].    *)
(***************************************************************************)
\* A key whose value is null (a YAML key with nothing after the colon):
\* present, unlike a key the document does not have (None).
Null == [null |-> TRUE]

\* The test of line 143 as the test of line 134: value !== undefined.
notNullMutantUndefined(value) == value # None

\* value != null, false for null and for undefined alike (line 143).
notNull(value) == value # None /\ value # Some(Null)

\* The migration without line 141: the root keeps its specifiers.
deleteSpecifiersMutantKeep(doc) == doc

\* delete lockfile.specifiers (line 141)
deleteSpecifiers(doc) == [doc EXCEPT !.specifiers = None]

RECURSIVE moveDepFields(_, _, _)
\* The loop of lines 142-147 from index i on; st = [root, importer].
moveDepFields(st, fields, i) ==
    IF i > Len(fields) THEN st
    ELSE LET depType == fields[i]
         IN  IF notNull(st.root[depType])
             THEN moveDepFields(
                      [root |-> [st.root EXCEPT ![depType] = None],
                       importer |-> [st.importer EXCEPT ![depType] = st.root[depType]]],
                      fields, i + 1)
             ELSE moveDepFields(st, fields, i + 1)

migrate(lockfile) ==
    IF lockfile = None \/ lockfile[1].specifiers = None
    THEN lockfile
    ELSE LET doc == lockfile[1]
             start == [root |-> deleteSpecifiers(doc),
                       importer |-> [EmptyImporter EXCEPT
                                        !.specifiers = doc.specifiers,
                                        !.dependenciesMeta = doc.dependenciesMeta]]
             end == moveDepFields(start, DEPENDENCIES_FIELDS, 1)
         IN  Some([end.root EXCEPT !.importers = Some([id \in {"."} |-> end.importer])])

(***************************************************************************)
(* _read, lines 149-170: the version check.                                *)
(***************************************************************************)
\* The comparison of line 152 on whole versions instead of majors.
sameMajorMutantExact(lockfileSemver, wantedSemver) == lockfileSemver = wantedSemver

\* Line 152: semver.major(lockfileSemver) === semver.major(comverToSemver(wantedVersion)).
sameMajor(lockfileSemver, wantedSemver) ==
    semverMajor(lockfileSemver) = semverMajor(wantedSemver)

\* Line 168 returning the flag of line 126: { lockfile: null, hadConflicts }.
incompatibleMutantKeepsFlag(lockfilePath, opts, log, resolved) ==
    IF opts.ignoreIncompatible
    THEN Returned(None, resolved, Append(log, "warn: ignoring not compatible lockfile"), resolved)
    ELSE Threw(LockfileBreakingChangeError(lockfilePath), log, resolved)

\* Lines 163-170: what is left when the document was not accepted.
incompatible(lockfilePath, opts, log, resolved) ==
    IF opts.ignoreIncompatible
    THEN Returned(None, FALSE, Append(log, "warn: ignoring not compatible lockfile"), resolved)
    ELSE Threw(LockfileBreakingChangeError(lockfilePath), log, resolved)

checkVersion(lockfilePath, opts, lockfile, hadConflicts, log, resolved) ==
    IF lockfile = None
    THEN incompatible(lockfilePath, opts, log, resolved)
    ELSE LET lockfileSemver == comverToSemver(versionString(lockfile[1]))
             wantedSemver == comverToSemver(opts.wantedVersion[1])
         IN  IF opts.wantedVersion = None
             THEN Returned(lockfile, hadConflicts, log, resolved)
             ELSE IF ~semverValid(lockfileSemver)
             THEN Threw(InvalidVersion, log, resolved)
             ELSE IF sameMajor(lockfileSemver, wantedSemver)
             THEN Returned(lockfile, hadConflicts,
                           IF semverGt(lockfileSemver, wantedSemver)
                           THEN Append(log, "warn: newer lockfile may be downgraded")
                           ELSE log,
                           resolved)
             ELSE incompatible(lockfilePath, opts, log, resolved)

(***************************************************************************)
(* _read (lines 93-171).  io is the outside world of this read.            *)
(***************************************************************************)
_read(lockfilePath, opts, io) ==
    IF io.error # None
    THEN IF rethrows(io.error[1])
         THEN Threw(io.error[1], <<>>, FALSE)
         ELSE Returned(None, FALSE, <<>>, FALSE)
    ELSE LET parsed == parse(lockfilePath, opts, io.text)
         IN  IF parsed.err # None
             THEN parsed
             ELSE checkVersion(lockfilePath, opts, migrate(parsed.lockfile),
                               parsed.hadConflicts, parsed.log, parsed.resolved)

(***************************************************************************)
(* The three exported readers (lines 21-91) and the branch merge           *)
(* (lines 192-234) as a state machine: one action per stretch of code      *)
(* between two awaits.                                                     *)
(***************************************************************************)
VARIABLES
    pc,            \* where the call stands: "idle", "name", "read", "list", "branches", "done"
    fn,            \* the function that was called
    opts,          \* its opts argument
    lockfileNames, \* the candidate names (lines 44-50, 73-79)
    tried,         \* the _read calls of the loop so far, as Attempt records
    result,        \* result (line 51) / lockfile (line 80)
    base,          \* the lockfile argument of _mergeGitBranchLockfiles, if it was called
    files,         \* getGitBranchLockfileNames' answer (line 231), None before it
    reads,         \* per file of files: None while the read is pending, else Some(Attempt)
    order,         \* the indexes of files in the order their reads completed
    thrown         \* the error the call rejected with, if any

readerVars == <<pc, fn, opts, lockfileNames, tried, result, base, files, reads, order, thrown>>

\* The import command (handler and its helpers).
VARIABLES
    ipc,                    \* where handler stands: "off", "idle", "rimraf", "probeYarn", ..., "done"
    iopts,                  \* handler's opts, as far as handler reads them
    disk,                   \* opts.dir: per file name, None or Some(what the file holds)
    rimrafs,                \* the rimraf calls so far: [path, was, error]
    probes,                 \* the exists() calls so far: [file, found]
    fileReads,              \* the readFile / loadJsonFile calls so far: [file, error, object, content]
    extractions,            \* the extraction functions called so far
    versionsByPackageNames, \* line 55
    preferredVersions,      \* line 56
    installed,              \* None, or Some of what install / recursive was given
    ierr                    \* the error handler rejected with, if any

importVars == <<ipc, iopts, disk, rimrafs, probes, fileReads, extractions,
                versionsByPackageNames, preferredVersions, installed, ierr>>

\* A function of the module applied on its own: its argument, and the
\* results of its successive applications.
VARIABLES fnArg, fnOut

pureVars == <<fnArg, fnOut>>

vars == <<readerVars, importVars, pureVars>>

\* The import command is not running.
ImportOff ==
    /\ ipc = "off"
    /\ iopts = <<>>
    /\ disk = <<>>
    /\ rimrafs = <<>>
    /\ probes = <<>>
    /\ fileReads = <<>>
    /\ extractions = <<>>
    /\ versionsByPackageNames = <<>>
    /\ preferredVersions = <<>>
    /\ installed = <<>>
    /\ ierr = <<>>

\* No function is applied on its own.
PureOff == fnArg = <<>> /\ fnOut = <<>>

pkgPath == "/project"
virtualStoreDir == "/project/node_modules/.pnpm"

\* The name of the lockfile of git branch b (lockfileName.ts, gitBranchLockfile.ts).
BranchLockfileName(b) == "pnpm-lock." \o ToString(b) \o ".yaml"

(***************************************************************************)
(* Inputs.                                                                 *)
(***************************************************************************)
Doc(version, importers, packages) ==
    [EmptyDoc EXCEPT !.lockfileVersion = version, !.importers = importers,
                     !.packages = packages]

Importers(spec, resolved) ==
    Some([id \in {"."} |->
            [EmptyImporter EXCEPT !.specifiers = Some([foo |-> spec]),
                                  !.dependencies = Some([foo |-> resolved])]])

ImportersBase == Importers("^1.0.0", "1.0.0")
ImportersBranch == Importers("^2.0.0", "2.0.0")

\* A document in the legacy shape: specifiers and dependency fields at the root.
LegacyDoc ==
    [EmptyDoc EXCEPT !.lockfileVersion = Some(<<5, 4>>),
                     !.specifiers = Some([foo |-> "^1.0.0", bar |-> "^3.0.0"]),
                     !.dependencies = Some([foo |-> "1.0.0"]),
                     !.devDependencies = Some([bar |-> "3.0.0"]),
                     !.packages = Some([A |-> "v1"])]

BaseDocs ==
    { Doc(Some(<<5, 4>>), ImportersBase, Some([A |-> "v1"])),
      Doc(Some(<<5, 4>>), ImportersBase, None),
      Doc(Some(<<6>>), ImportersBase, Some([A |-> "v1"])),
      Doc(Some(<<5, 4, 1>>), ImportersBase, Some([A |-> "v1"])),
      Doc(None, ImportersBase, Some([A |-> "v1"])),
      LegacyDoc }

BranchDocs ==
    { Doc(Some(<<5, 4>>), ImportersBranch, Some([B |-> "v1"])),
      Doc(Some(<<5, 4>>), ImportersBranch, Some([A |-> "v2"])),
      Doc(Some(<<5, 4>>), ImportersBranch, None),
      Doc(Some(<<6>>), ImportersBranch, Some([A |-> "v2", B |-> "v2"])) }

ParserError == Err("YAMLException", None, "bad indentation of a mapping entry")
ResolverError == Err("ERR_PNPM_BROKEN_LOCKFILE", None, "conflict resolution failed")

\* Texts yaml.load accepts, a text it rejects that has no conflict markers,
\* and texts with conflict markers that are resolved into a document.
TextsOf(docs, resolvedDocs) ==
    { Text(Value(Some(d)), FALSE, Value(None)) : d \in docs }
    \cup { Text(Throws(ParserError), FALSE, Value(None)) }
    \cup { Text(Throws(ParserError), TRUE, Value(Some(d))) : d \in resolvedDocs }

\* The empty text: yaml.load gives undefined.
EmptyText == Text(Value(None), FALSE, Value(None))

\* A text with conflict markers whose resolution fails.
UnresolvableText == Text(Throws(ParserError), TRUE, Throws(ResolverError))

OutcomesOf(path, texts) ==
    { ReadFailed(Err("ENOENT", Some(path), "no such file or directory")),
      ReadFailed(Err("EACCES", Some(path), "permission denied")) }
    \cup { ReadOk(t) : t \in texts }

\* What fs.readFile can give for the standard lockfile and for lock.yaml.
BaseOutcomes(path) ==
    OutcomesOf(path,
               {EmptyText} \cup
               TextsOf(BaseDocs, { Doc(Some(<<5, 4>>), ImportersBase, Some([A |-> "v1"])),
                                   Doc(Some(<<6>>), ImportersBase, Some([A |-> "v1"])) }))

\* What fs.readFile can give for a git-branch lockfile.
BranchOutcomes(path) ==
    OutcomesOf(path,
               {UnresolvableText} \cup
               TextsOf(BranchDocs, { Doc(Some(<<5, 4>>), ImportersBranch, Some([B |-> "v2"])) }))

Outcomes(path, name) ==
    IF name = WANTED_LOCKFILE \/ name = "lock.yaml"
    THEN BaseOutcomes(path) ELSE BranchOutcomes(path)

WantedVersions == { None, Some(<<5>>) }

Opts == [wantedVersion : WantedVersions, ignoreIncompatible : BOOLEAN,
         useGitBranchLockfile : BOOLEAN, mergeGitBranchLockfiles : BOOLEAN]

\* readCurrentLockfile's opts have no branch options.
CurrentOpts == { o \in Opts : ~o.useGitBranchLockfile /\ ~o.mergeGitBranchLockfiles }

\* The opts a caller's opts give _read: { ...opts, autofixMergeConflicts }.
readOpts(o, autofix) ==
    [autofixMergeConflicts |-> autofix, wantedVersion |-> o.wantedVersion,
     ignoreIncompatible |-> o.ignoreIncompatible]

NoOpts == [wantedVersion |-> None, ignoreIncompatible |-> FALSE,
           useGitBranchLockfile |-> FALSE, mergeGitBranchLockfiles |-> FALSE]

NoResult == [lockfile |-> None, hadConflicts |-> FALSE]

Init ==
    /\ pc = "idle"
    /\ fn = "none"
    /\ opts = NoOpts
    /\ lockfileNames = <<>>
    /\ tried = <<>>
    /\ result = NoResult
    /\ base = None
    /\ files = None
    /\ reads = <<>>
    /\ order = <<>>
    /\ thrown = None
    /\ ImportOff
    /\ PureOff

(***************************************************************************)
(* readCurrentLockfile (lines 21-30).                                      *)
(***************************************************************************)
\* One call of _read: its lockfilePath and opts, what the outside gave it, its result.
Attempt(path, o, io, res) == [path |-> path, opts |-> o, io |-> io, res |-> res]

CallReadCurrentLockfile ==
    /\ pc = "idle"
    /\ \E o \in CurrentOpts : opts' = o
    /\ fn' = "readCurrentLockfile"
    /\ pc' = "read"
    /\ UNCHANGED <<lockfileNames, tried, result, base, files, reads, order, thrown>>
    /\ UNCHANGED <<importVars, pureVars>>

ReadCurrentLockfile ==
    /\ pc = "read"
    /\ fn = "readCurrentLockfile"
    /\ LET lockfilePath == join(virtualStoreDir, "lock.yaml")
       IN  \E io \in Outcomes(lockfilePath, "lock.yaml") :
             LET res == _read(lockfilePath, readOpts(opts, FALSE), io)
             IN  /\ tried' = Append(tried, Attempt(lockfilePath, readOpts(opts, FALSE), io, res))
                 /\ thrown' = res.err
                 /\ result' = [lockfile |-> res.lockfile, hadConflicts |-> FALSE]
    /\ pc' = "done"
    /\ UNCHANGED <<fn, opts, lockfileNames, base, files, reads, order>>
    /\ UNCHANGED <<importVars, pureVars>>

(***************************************************************************)
(* readWantedLockfile (lines 64-91) and                                    *)
(* readWantedLockfileAndAutofixConflicts (lines 32-62).                    *)
(***************************************************************************)
WantedReaders == {"readWantedLockfile", "readWantedLockfileAndAutofixConflicts"}

\* The autofixMergeConflicts the loop's _read gets: line 53 sets it, line 82 does not.
autofixOf(f) == f = "readWantedLockfileAndAutofixConflicts"

CallReadWanted ==
    /\ pc = "idle"
    /\ \E f \in WantedReaders : fn' = f
    /\ \E o \in Opts : /\ opts' = o
                       /\ pc' = IF o.useGitBranchLockfile THEN "name" ELSE "read"
    /\ lockfileNames' = <<WANTED_LOCKFILE>>
    /\ UNCHANGED <<tried, result, base, files, reads, order, thrown>>
    /\ UNCHANGED <<importVars, pureVars>>

\* lockfileNames.push(name): the branch name after the standard one.
withBranchNameMutantPush(names, gitBranchLockfileName) ==
    IF gitBranchLockfileName # WANTED_LOCKFILE
    THEN names \o <<gitBranchLockfileName>>
    ELSE names

\* Lines 47-49 (76-78): lockfileNames.unshift(gitBranchLockfileName).
withBranchName(names, gitBranchLockfileName) ==
    IF gitBranchLockfileName # WANTED_LOCKFILE
    THEN <<gitBranchLockfileName>> \o names
    ELSE names

\* The await of getWantedLockfileName (lines 46, 75): the name of the current
\* branch's lockfile, or the standard name when there is no branch.
GetWantedLockfileName ==
    /\ pc = "name"
    /\ \E gitBranchLockfileName \in {WANTED_LOCKFILE, BranchLockfileName(1)} :
         lockfileNames' = withBranchName(lockfileNames, gitBranchLockfileName)
    /\ pc' = "read"
    /\ UNCHANGED <<fn, opts, tried, result, base, files, reads, order, thrown>>
    /\ UNCHANGED <<importVars, pureVars>>

\* One turn of the loop (lines 52-60, 81-89): the await of _read and what follows.
ReadCandidate ==
    /\ pc = "read"
    /\ fn \in WantedReaders
    /\ Len(tried) < Len(lockfileNames)
    /\ LET lockfilePath == join(pkgPath, lockfileNames[Len(tried) + 1])
       IN  \E io \in Outcomes(lockfilePath, lockfileNames[Len(tried) + 1]) :
             LET res == _read(lockfilePath, readOpts(opts, autofixOf(fn)), io)
             IN  /\ tried' = Append(tried, Attempt(lockfilePath, readOpts(opts, autofixOf(fn)), io, res))
                 /\ thrown' = res.err
                 /\ IF res.err # None
                    THEN /\ pc' = "done"
                         /\ UNCHANGED <<result, base>>
                    ELSE /\ result' = [lockfile |-> res.lockfile,
                                       hadConflicts |-> IF autofixOf(fn)
                                                        THEN res.hadConflicts ELSE FALSE]
                         /\ IF res.lockfile # None
                            THEN IF opts.mergeGitBranchLockfiles
                                 THEN pc' = "merge" /\ base' = res.lockfile
                                 ELSE pc' = "done" /\ UNCHANGED base
                            ELSE /\ pc' = IF Len(tried) + 1 < Len(lockfileNames)
                                          THEN "read" ELSE "done"
                                 /\ UNCHANGED base
    /\ UNCHANGED <<fn, opts, lockfileNames, files, reads, order>>
    /\ UNCHANGED <<importVars, pureVars>>

(***************************************************************************)
(* _mergeGitBranchLockfiles (lines 192-217) and _readGitBranchLockfiles    *)
(* (lines 219-234).                                                        *)
(***************************************************************************)
\* { ...b, ...a }: the spread of lines 209-212 with its operands swapped.
spreadMutantSwapped(a, b) ==
    [k \in (DOMAIN a) \cup (DOMAIN b) |-> IF k \in DOMAIN a THEN a[k] ELSE b[k]]

\* { ...a, ...b }
spread(a, b) ==
    [k \in (DOMAIN a) \cup (DOMAIN b) |-> IF k \in DOMAIN b THEN b[k] ELSE a[k]]

\* Spreading undefined adds nothing.
entries(packages) == IF packages = None THEN <<>> ELSE packages[1]

\* The loop body with the branch file's importers taken over as well.
mergeOneMutantImporters(lockfile, gitBranchLockfile) ==
    IF gitBranchLockfile # None /\ gitBranchLockfile[1].packages # None
    THEN [lockfile EXCEPT
            !.packages = Some(spread(entries(lockfile.packages),
                                     entries(gitBranchLockfile[1].packages))),
            !.importers = gitBranchLockfile[1].importers]
    ELSE lockfile

\* The loop body, lines 208-213.
mergeOne(lockfile, gitBranchLockfile) ==
    IF gitBranchLockfile # None /\ gitBranchLockfile[1].packages # None
    THEN [lockfile EXCEPT
            !.packages = Some(spread(entries(lockfile.packages),
                                     entries(gitBranchLockfile[1].packages)))]
    ELSE lockfile

RECURSIVE mergeFrom(_, _, _)
\* The loop of lines 207-214 from index i on.
mergeFrom(lockfile, gitBranchLockfiles, i) ==
    IF i > Len(gitBranchLockfiles) THEN lockfile
    ELSE mergeFrom(mergeOne(lockfile, gitBranchLockfiles[i]), gitBranchLockfiles, i + 1)

\* The lockfiles in the order the reads completed.
gitBranchLockfilesMutantCompletion(rs, completed) ==
    [k \in 1..Len(completed) |-> rs[completed[k]][1].res.lockfile]

\* Line 205: Promise.all's array, one lockfile per file, in the order of files.
gitBranchLockfiles(rs, completed) ==
    [k \in 1..Len(rs) |-> rs[k][1].res.lockfile]

\* A failed read that does not reject the whole (as Promise.allSettled).
rejectsMutantSettled(res) == FALSE

\* Line 233: Promise.all rejects as soon as one _read rejects.
rejects(res) == res.err # None

\* The opts the branch reads get: with the loop's autofixMergeConflicts.
branchReadOptsMutantSame(f, o) == readOpts(o, autofixOf(f))

\* The opts the branch reads get: the caller's opts (lines 56, 85, 205, 233).
branchReadOpts(f, o) == readOpts(o, FALSE)

\* Lines 202-204.
MergeGitBranchLockfiles ==
    /\ pc = "merge"
    /\ IF base = None
       THEN /\ pc' = "done"
            /\ result' = [result EXCEPT !.lockfile = base]
       ELSE /\ pc' = "list"
            /\ UNCHANGED result
    /\ UNCHANGED <<fn, opts, lockfileNames, tried, base, files, reads, order, thrown>>
    /\ UNCHANGED <<importVars, pureVars>>

\* The await of getGitBranchLockfileNames (line 231), and line 233's map: every
\* _read runs to its readFile.
ReadGitBranchLockfiles ==
    /\ pc = "list"
    /\ \E n \in 0..MaxBranchFiles :
         /\ files' = Some([k \in 1..n |-> BranchLockfileName(k)])
         /\ reads' = [k \in 1..n |-> None]
    /\ pc' = "branches"
    /\ UNCHANGED <<fn, opts, lockfileNames, tried, result, base, order, thrown>>
    /\ UNCHANGED <<importVars, pureVars>>

\* The readFile of branch file k completes and its _read runs to its end.
BranchReadDone(k) ==
    /\ pc = "branches"
    /\ reads[k] = None
    /\ LET lockfilePath == join(pkgPath, files[1][k])
       IN  \E io \in BranchOutcomes(lockfilePath) :
             LET res == _read(lockfilePath, branchReadOpts(fn, opts), io)
             IN  /\ reads' = [reads EXCEPT ![k] = Some(Attempt(lockfilePath, branchReadOpts(fn, opts), io, res))]
                 /\ IF rejects(res)
                    THEN thrown' = res.err /\ pc' = "done"
                    ELSE UNCHANGED <<thrown, pc>>
    /\ order' = Append(order, k)
    /\ UNCHANGED <<fn, opts, lockfileNames, tried, result, base, files>>
    /\ UNCHANGED <<importVars, pureVars>>

\* Promise.all resolved: lines 205-216.
MergeBranches ==
    /\ pc = "branches"
    /\ \A k \in 1..Len(reads) : reads[k] # None
    /\ result' = [result EXCEPT
                    !.lockfile = Some(mergeFrom(base[1], gitBranchLockfiles(reads, order), 1))]
    /\ pc' = "done"
    /\ UNCHANGED <<fn, opts, lockfileNames, tried, base, files, reads, order, thrown>>
    /\ UNCHANGED <<importVars, pureVars>>

Next ==
    \/ CallReadCurrentLockfile
    \/ ReadCurrentLockfile
    \/ CallReadWanted
    \/ GetWantedLockfileName
    \/ ReadCandidate
    \/ MergeGitBranchLockfiles
    \/ ReadGitBranchLockfiles
    \/ \E k \in 1..Len(reads) : BranchReadDone(k)
    \/ MergeBranches

Spec == Init /\ [][Next]_vars

(***************************************************************************)
(* _mergeGitBranchLockfiles on its own: its arguments drawn from the       *)
(* values its signature allows (Lockfile | null).                          *)
(***************************************************************************)
InitMerge ==
    /\ pc = "merge"
    /\ fn = "_mergeGitBranchLockfiles"
    /\ opts \in { o \in Opts : o.mergeGitBranchLockfiles /\ ~o.useGitBranchLockfile }
    /\ lockfileNames = <<>>
    /\ tried = <<>>
    /\ base \in {None} \cup { Some(d) : d \in BaseDocs }
    /\ result = [lockfile |-> base, hadConflicts |-> FALSE]
    /\ files = None
    /\ reads = <<>>
    /\ order = <<>>
    /\ thrown = None
    /\ ImportOff
    /\ PureOff

NextMerge ==
    \/ MergeGitBranchLockfiles
    \/ ReadGitBranchLockfiles
    \/ \E k \in 1..Len(reads) : BranchReadDone(k)
    \/ MergeBranches

SpecMerge == InitMerge /\ [][NextMerge]_vars

(***************************************************************************)
(* Properties.                                                             *)
(***************************************************************************)
\* Every _read call the state records: the loop's and the branch files'.
Attempts ==
    { tried[j] : j \in 1..Len(tried) }
    \cup { reads[k][1] : k \in { i \in 1..Len(reads) : reads[i] # None } }

\* The document a read got from the text: the parsed one, or the resolved one
\* when the parse failed and the conflicts were resolved.
LoadedOk(a) == a.io.error = None /\ a.io.text.load.err = None
ParseFailed(a) == a.io.error = None /\ a.io.text.load.err # None
ResolvedOk(a) ==
    /\ ParseFailed(a)
    /\ a.opts.autofixMergeConflicts
    /\ a.io.text.isDiff
    /\ a.io.text.autofix.err = None
DocumentOf(a) ==
    IF LoadedOk(a) THEN a.io.text.load.value
    ELSE IF ResolvedOk(a) THEN a.io.text.autofix.value
    ELSE None

\* The comver of a document as major and minor; lockfileVersion is one or
\* two numbers in every document for which this is used.
HasComver(doc) == doc.lockfileVersion = None \/ Len(doc.lockfileVersion[1]) <= 2
MajorOf(doc) == IF doc.lockfileVersion = None THEN 0 ELSE doc.lockfileVersion[1][1]

IsBreakingChange(res, path) ==
    /\ res.err # None
    /\ res.err[1].code = "ERR_PNPM_LOCKFILE_BREAKING_CHANGE"
    /\ res.err[1].path = Some(path)

\* C1: a read that got a document and a wantedVersion returns the lockfile
\* when the majors are equal; when they differ it returns null without
\* throwing if ignoreIncompatible, and throws LockfileBreakingChange with the
\* file's path otherwise.
C1_MajorDecides ==
    \A a \in Attempts :
        (/\ DocumentOf(a) # None
         /\ HasComver(DocumentOf(a)[1])
         /\ a.opts.wantedVersion # None)
        => IF MajorOf(DocumentOf(a)[1]) = a.opts.wantedVersion[1][1]
           THEN /\ a.res.err = None
                /\ a.res.lockfile # None
                /\ a.res.lockfile[1].lockfileVersion = DocumentOf(a)[1].lockfileVersion
                /\ a.res.lockfile[1].packages = DocumentOf(a)[1].packages
           ELSE IF a.opts.ignoreIncompatible
           THEN a.res.err = None /\ a.res.lockfile = None
           ELSE IsBreakingChange(a.res, a.path)

\* A base lockfile 5.4 accepted for wanted 5 and a branch lockfile of major 6
\* refused with LockfileBreakingChange.
C1_Witness ==
    /\ pc = "done"
    /\ \E a \in Attempts :
         /\ a.opts.wantedVersion = Some(<<5>>)
         /\ DocumentOf(a) # None
         /\ DocumentOf(a)[1].lockfileVersion = Some(<<5, 4>>)
         /\ a.res.lockfile # None
    /\ \E a \in Attempts :
         /\ DocumentOf(a) # None
         /\ MajorOf(DocumentOf(a)[1]) = 6
         /\ IsBreakingChange(a.res, a.path)

\* C2: with no wantedVersion, a read whose text parsed never throws
\* LockfileBreakingChange and returns the parsed value, whatever it is.
C2_NoWantedVersionAccepts ==
    \A a \in Attempts :
        (LoadedOk(a) /\ a.opts.wantedVersion = None)
        => /\ a.res.err = None
           /\ (a.io.text.load.value # None => a.res.lockfile # None)

\* C3: a read that fails with ENOENT gives { lockfile: null, hadConflicts:
\* false } and throws nothing; any other read error is thrown as it is.  The
\* same for the call as a whole when that read was its last.
C3_NotFoundIsAbsent ==
    /\ \A a \in Attempts :
         a.io.error # None
         => IF a.io.error[1].code = "ENOENT"
            THEN a.res.err = None /\ a.res.lockfile = None /\ ~a.res.hadConflicts
            ELSE a.res.err = a.io.error
    /\ (pc = "done" /\ tried # <<>> /\ tried[Len(tried)].io.error # None)
       => IF tried[Len(tried)].io.error[1].code = "ENOENT"
          THEN thrown = None /\ result = NoResult
          ELSE thrown = tried[Len(tried)].io.error

\* readWantedLockfile ended absent after ENOENT on both candidates.
C3_Witness ==
    /\ pc = "done"
    /\ fn = "readWantedLockfile"
    /\ Len(tried) = 2
    /\ \A j \in 1..2 : /\ tried[j].io.error # None
                       /\ tried[j].io.error[1].code = "ENOENT"
    /\ thrown = None
    /\ result.lockfile = None

\* C4: a parse failure with auto-fix disabled, or on a text without conflict
\* markers, throws BROKEN_LOCKFILE with the path and the parser's message,
\* and autofixMergeConflicts is not called.
C4_BrokenLockfile ==
    \A a \in Attempts :
        (ParseFailed(a) /\ (~a.opts.autofixMergeConflicts \/ ~a.io.text.isDiff))
        => /\ a.res.err = Some(Err("ERR_PNPM_BROKEN_LOCKFILE", Some(a.path),
                                   a.io.text.load.err[1].message))
           /\ ~a.res.resolved
           /\ a.res.lockfile = None

\* readCurrentLockfile on a text with conflict markers: BROKEN_LOCKFILE.
C4_Witness ==
    /\ pc = "done"
    /\ fn = "readCurrentLockfile"
    /\ ParseFailed(tried[1])
    /\ tried[1].io.text.isDiff
    /\ thrown # None
    /\ thrown[1].code = "ERR_PNPM_BROKEN_LOCKFILE"

HasConflictMarkers(a) == ParseFailed(a) /\ a.opts.autofixMergeConflicts /\ a.io.text.isDiff

\* C5 as stated: with auto-fix enabled every text with conflict markers that
\* fails to parse gives a non-null lockfile and hadConflicts = true.
C5_ConflictsAlwaysGiveLockfile ==
    \A a \in Attempts :
        HasConflictMarkers(a)
        => a.res.err = None /\ a.res.lockfile # None /\ a.res.hadConflicts

\* C5: with auto-fix enabled, a text with conflict markers that fails to
\* parse and that autofixMergeConflicts resolves into a document gives a
\* non-null lockfile with hadConflicts = true when no wantedVersion is asked
\* for or the resolved document has wantedVersion's major; when the majors
\* differ it gives null with hadConflicts = false (ignoreIncompatible) or
\* LockfileBreakingChange.  readWantedLockfileAndAutofixConflicts returns the
\* hadConflicts of the read its lockfile comes from.
C5_ConflictsGiveLockfileIfCompatible ==
    /\ \A a \in Attempts :
         (/\ HasConflictMarkers(a)
          /\ ResolvedOk(a)
          /\ DocumentOf(a) # None
          /\ HasComver(DocumentOf(a)[1]))
         => IF \/ a.opts.wantedVersion = None
               \/ MajorOf(DocumentOf(a)[1]) = a.opts.wantedVersion[1][1]
            THEN a.res.err = None /\ a.res.lockfile # None /\ a.res.hadConflicts
            ELSE IF a.opts.ignoreIncompatible
            THEN a.res.err = None /\ a.res.lockfile = None /\ ~a.res.hadConflicts
            ELSE IsBreakingChange(a.res, a.path)
    /\ (/\ pc = "done"
        /\ fn = "readWantedLockfileAndAutofixConflicts"
        /\ thrown = None
        /\ result.lockfile # None)
       => result.hadConflicts = HasConflictMarkers(tried[Len(tried)])

\* readWantedLockfileAndAutofixConflicts returned a resolved lockfile.
C5_Witness ==
    /\ pc = "done"
    /\ fn = "readWantedLockfileAndAutofixConflicts"
    /\ thrown = None
    /\ HasConflictMarkers(tried[Len(tried)])
    /\ opts.wantedVersion # None
    /\ result.lockfile # None
    /\ result.hadConflicts

IsAbsent(res) == res.err = None /\ res.lockfile = None

\* C6: the candidates are the branch name (only with useGitBranchLockfile,
\* and only if it is not the standard name) and then the standard name; they
\* are read in that order, a candidate is read only after all before it gave
\* null, and the lockfile returned is that of the last candidate read.
C6_CandidateOrder ==
    (fn \in WantedReaders /\ pc \notin {"idle", "name"})
    => /\ Len(lockfileNames) \in {1, 2}
       /\ lockfileNames[Len(lockfileNames)] = WANTED_LOCKFILE
       /\ Len(lockfileNames) = 2
          => opts.useGitBranchLockfile /\ lockfileNames[1] # WANTED_LOCKFILE
       /\ Len(tried) <= Len(lockfileNames)
       /\ \A j \in 1..Len(tried) :
            /\ tried[j].path = join(pkgPath, lockfileNames[j])
            /\ j < Len(tried) => IsAbsent(tried[j].res)
       /\ (pc = "done" /\ thrown = None)
          => IF result.lockfile = None
             THEN Len(tried) = Len(lockfileNames) /\ IsAbsent(tried[Len(tried)].res)
             ELSE /\ tried[Len(tried)].res.lockfile # None
                  /\ IF opts.mergeGitBranchLockfiles
                     THEN /\ base = tried[Len(tried)].res.lockfile
                          /\ result.lockfile[1].importers = base[1].importers
                     ELSE result.lockfile = tried[Len(tried)].res.lockfile

\* The branch lockfile gave null (ENOENT) and the standard one was returned.
C6_Witness ==
    /\ pc = "done"
    /\ fn \in WantedReaders
    /\ Len(tried) = 2
    /\ tried[1].path = join(pkgPath, BranchLockfileName(1))
    /\ IsAbsent(tried[1].res)
    /\ tried[2].path = join(pkgPath, WANTED_LOCKFILE)
    /\ thrown = None
    /\ result.lockfile # None
    /\ result.lockfile = tried[2].res.lockfile

\* The merge ran to its end.
Merged == pc = "done" /\ thrown = None /\ base # None /\ files # None

\* base, b1, ..., bn: the lockfiles whose packages take part, in order.
Chain == <<base>> \o [k \in 1..Len(reads) |-> reads[k][1].res.lockfile]
PackagesOf(lockfile) ==
    IF lockfile = None \/ lockfile[1].packages = None THEN <<>> ELSE lockfile[1].packages[1]
Definers(key) == { i \in 1..Len(Chain) : key \in DOMAIN PackagesOf(Chain[i]) }
LastDefiner(key) == CHOOSE i \in Definers(key) : \A j \in Definers(key) : j <= i

\* C7: after the merge, packages has exactly the keys of the base and of
\* the branch lockfiles, each with the value of the last of base, b1, ..., bn
\* that defines it.
C7_LaterBranchWins ==
    Merged
    => /\ DOMAIN PackagesOf(result.lockfile)
            = UNION { DOMAIN PackagesOf(Chain[i]) : i \in 1..Len(Chain) }
       /\ \A key \in DOMAIN PackagesOf(result.lockfile) :
            PackagesOf(result.lockfile)[key] = PackagesOf(Chain[LastDefiner(key)])[key]

\* base {A: v1}, branches {B: v1} then {A: v2}: {A: v2, B: v1}.
C7_Witness ==
    /\ Merged
    /\ PackagesOf(base) = [A |-> "v1"]
    /\ Len(reads) = 2
    /\ PackagesOf(reads[1][1].res.lockfile) = [B |-> "v1"]
    /\ PackagesOf(reads[2][1].res.lockfile) = [A |-> "v2"]
    /\ PackagesOf(result.lockfile) = [A |-> "v2", B |-> "v1"]

\* C8: the merge leaves every key of the base but packages as it was,
\* whatever the branch files hold; a null base comes back as null and no
\* branch file is listed or read.
C8_OnlyPackagesChange ==
    /\ base = None => files = None /\ reads = <<>> /\ order = <<>>
    /\ (pc = "done" /\ thrown = None /\ fn = "_mergeGitBranchLockfiles")
       => IF base = None
          THEN result.lockfile = None
          ELSE /\ result.lockfile # None
               /\ [result.lockfile[1] EXCEPT !.packages = None]
                    = [base[1] EXCEPT !.packages = None]

\* A branch lockfile with other importers gave its packages and nothing else.
C8_Witness ==
    /\ Merged
    /\ fn = "_mergeGitBranchLockfiles"
    /\ \E k \in 1..Len(reads) :
         /\ reads[k][1].res.lockfile # None
         /\ reads[k][1].res.lockfile[1].packages # None
         /\ reads[k][1].res.lockfile[1].importers # base[1].importers
    /\ result.lockfile[1].packages # base[1].packages
    /\ result.lockfile[1].importers = base[1].importers

\* C9: all branch reads are outstanding together, and whatever the order
\* in which they complete the merge applies them in the order of files.
C9_EnumerationOrder ==
    /\ pc = "branches" => Len(reads) = Len(files[1])
    /\ Merged
       => result.lockfile
            = Some(mergeFrom(base[1],
                             [k \in 1..Len(reads) |-> reads[k][1].res.lockfile], 1))

\* The second file's read completed first and the first file's value for B
\* was still overwritten by the second's.
C9_Witness ==
    /\ Merged
    /\ order = <<2, 1>>
    /\ "B" \in DOMAIN PackagesOf(reads[1][1].res.lockfile)
    /\ "B" \in DOMAIN PackagesOf(reads[2][1].res.lockfile)
    /\ PackagesOf(reads[1][1].res.lockfile)["B"] # PackagesOf(reads[2][1].res.lockfile)["B"]
    /\ PackagesOf(result.lockfile)["B"] = PackagesOf(reads[2][1].res.lockfile)["B"]

\* C10: a branch read that throws makes the call throw that error, and no
\* merge is applied.
C10_BranchFailurePropagates ==
    \A k \in 1..Len(reads) :
        (reads[k] # None /\ reads[k][1].res.err # None)
        => /\ pc = "done"
           /\ thrown = reads[k][1].res.err
           /\ result.lockfile = base

\* A readWanted call failed with the BROKEN_LOCKFILE of its second branch file.
C10_Witness ==
    /\ pc = "done"
    /\ fn \in WantedReaders
    /\ Len(reads) = 2
    /\ reads[2] # None
    /\ ParseFailed(reads[2][1])
    /\ thrown # None
    /\ thrown[1] = BrokenLockfile(reads[2][1].path, ParserError.message)

(***************************************************************************)
(* The import command: src/unnamed/part_000.                               *)
(*                                                                         *)
(* Package names and yarn keys are strings, kept as sequences of           *)
(* characters so that lastIndexOf and substring are computed on them.      *)
(***************************************************************************)
constructor == <<"c", "o", "n", "s", "t", "r", "u", "c", "t", "o", "r">>

\* What the object literal {} of line 55 inherits from Object.prototype:
\* ({})['constructor'] is the function Object, which is truthy and is no Set.
\* ('toString', 'valueOf', '__proto__', ... are inherited the same way.)
ObjectPrototype == {constructor}

TypeError(message) == Err("TypeError", None, message)

\* versionsByPackageNames while an extraction fills it: the object's own
\* properties, and the error the extraction threw, if any.
Versions(map, err) == [map |-> map, err |-> err]

\* const versionsByPackageNames = {}
NoVersions == Versions(<<>>, None)

\* if (!versionsByPackageNames[name]) versionsByPackageNames[name] = new Set()
\* versionsByPackageNames[name].add(version)
\* The lookup goes through the prototype chain: for a name that {} inherits
\* no Set is created, and .add is not a function.
addVersion(acc, name, version) ==
    IF acc.err # None THEN acc
    ELSE IF name \in DOMAIN acc.map
        THEN Versions([acc.map EXCEPT ![name] = @ \cup {version}], None)
    ELSE IF name \in ObjectPrototype
        THEN Versions(acc.map, Some(TypeError("versionsByPackageNames[packageName].add is not a function")))
    ELSE Versions([n \in DOMAIN acc.map \cup {name} |->
                      IF n = name THEN {version} ELSE acc.map[n]], None)

\* A node of an npm tree (NpmPackageLock, LockedPackage): dependencies is
\* null or undefined (None) or a mapping from names to nodes.
LockedPackage(version, dependencies) ==
    [version |-> version, dependencies |-> dependencies]

\* The first loop of getAllVersionsByPackageNames (lines 165-170).
RECURSIVE addChildren(_, _, _)
addChildren(dependencies, names, acc) ==
    IF names = {} THEN acc
    ELSE LET packageName == CHOOSE n \in names : TRUE
         IN  addChildren(dependencies, names \ {packageName},
                         addVersion(acc, packageName, dependencies[packageName].version))

\* getAllVersionsByPackageNames, and its second loop (lines 171-173).
RECURSIVE getAllVersionsByPackageNames(_, _)
RECURSIVE descend(_, _, _)
descend(dependencies, names, acc) ==
    IF names = {} \/ acc.err # None THEN acc
    ELSE LET packageName == CHOOSE n \in names : TRUE
         IN  descend(dependencies, names \ {packageName},
                     getAllVersionsByPackageNames(dependencies[packageName], acc))

getAllVersionsByPackageNames(npmPackageLock, acc) ==
    IF npmPackageLock.dependencies = None THEN acc
    ELSE LET dependencies == npmPackageLock.dependencies[1]
         IN  descend(dependencies, DOMAIN dependencies,
                     addChildren(dependencies, DOMAIN dependencies, acc))

\* getPreferredVersions
getPreferredVersions(versions) ==
    [packageName \in DOMAIN versions |->
        [version \in versions[packageName] |-> "version"]]

\* String.prototype.lastIndexOf, 0-based, -1 when absent.
lastIndexOf(s, ch) ==
    IF \E i \in 1..Len(s) : s[i] = ch
    THEN (CHOOSE i \in 1..Len(s) : s[i] = ch /\ \A j \in (i + 1)..Len(s) : s[j] # ch) - 1
    ELSE -1

\* String.prototype.substring: both ends clamped to 0..length, swapped if
\* start > end.
substring(s, start, end) ==
    LET clamp(i) == IF i < 0 THEN 0 ELSE IF i > Len(s) THEN Len(s) ELSE i
        lo == IF clamp(start) <= clamp(end) THEN clamp(start) ELSE clamp(end)
        hi == IF clamp(start) <= clamp(end) THEN clamp(end) ELSE clamp(start)
    IN  SubSeq(s, lo + 1, hi)

\* getAllVersionsFromYarnLockFile
RECURSIVE addKeys(_, _, _)
addKeys(yarnPackageLock, keys, acc) ==
    IF keys = {} THEN acc
    ELSE LET packageName == CHOOSE k \in keys : TRUE
             pkgName == substring(packageName, 0, lastIndexOf(packageName, "@"))
         IN  addKeys(yarnPackageLock, keys \ {packageName},
                     addVersion(acc, pkgName, yarnPackageLock[packageName].version))

getAllVersionsFromYarnLockFile(yarnPackageLock, acc) ==
    addKeys(yarnPackageLock, DOMAIN yarnPackageLock, acc)

(***************************************************************************)
(* The files of opts.dir the import command touches.                       *)
(***************************************************************************)
ForeignLockfiles == {"yarn.lock", "package-lock.json", "npm-shrinkwrap.json"}

\* A file on disk: whether this process may read it, and what the parser
\* used on it (parseYarnLock, JSON.parse) makes of its text.
File(readable, parsed) == [readable |-> readable, parsed |-> parsed]

\* A parser's outcome: the exception it threw, or the value it returned
\* (for parseYarnLock: { type, object }).
Parsed(type, object) == [error |-> None, type |-> type, object |-> object]
ParseThrew(e) == [error |-> Some(e), type |-> "", object |-> <<>>]

\* new PnpmError(code, message)
PnpmError(code, message) == Err("ERR_PNPM_" \o code, None, message)

ENOENT(path) == Err("ENOENT", Some(path), "no such file or directory")
EACCES(path) == Err("EACCES", Some(path), "permission denied")
EPERM(path) == Err("EPERM", Some(path), "operation not permitted")

\* The error gfs.readFile / loadJsonFile rejects with before any parsing.
fsError(d, path) ==
    IF d[path] = None THEN Some(ENOENT(path))
    ELSE IF ~d[path][1].readable THEN Some(EACCES(path))
    ELSE None

\* exists(path): path-exists resolves to true when fs.access succeeds.
exists(d, path) == d[path] # None

\* A rimraf that leaves the file where it is.
rimrafMutantKeep(d, path) == d

\* rimraf(path), when it succeeds: the file is gone (line 54).
rimraf(d, path) == [d EXCEPT ![path] = None]

\* What a call of a read function gave: an error thrown, or the object.
ReadThrew(e) == [error |-> Some(e), object |-> <<>>]
ReadGave(object) == [error |-> None, object |-> object]

\* A catch block that rethrows every error, ENOENT too.
yarnRethrowsMutantAll(err) == TRUE

\* The catch block of readYarnLockFile (line 124).
yarnRethrows(err) == err.code # "ENOENT"

\* The try block of readYarnLockFile (lines 116-122): what it throws, if
\* anything.
yarnTry(d, dir) ==
    LET path == join(dir, "yarn.lock")
    IN  IF fsError(d, path) # None THEN fsError(d, path)
        ELSE IF d[path][1].parsed.error # None THEN d[path][1].parsed.error
        ELSE IF d[path][1].parsed.type = "success" THEN None
        ELSE Some(PnpmError("GET_YARN_LOCKFILE_ERR",
                            "Failed With " \o d[path][1].parsed.type))

\* readYarnLockFile (lines 114-127).
readYarnLockFile(d, dir) ==
    IF yarnTry(d, dir) = None
    THEN ReadGave(d[join(dir, "yarn.lock")][1].parsed.object)
    ELSE IF yarnRethrows(yarnTry(d, dir)[1]) THEN ReadThrew(yarnTry(d, dir)[1])
    ELSE ReadThrew(PnpmError("YARN_LOCKFILE_NOT_FOUND", "No yarn.lock found"))

\* loadJsonFile(path): read the file, JSON.parse its text.
loadJsonFile(d, path) ==
    IF fsError(d, path) # None THEN ReadThrew(fsError(d, path)[1])
    ELSE IF d[path][1].parsed.error # None THEN ReadThrew(d[path][1].parsed.error[1])
    ELSE ReadGave(d[path][1].parsed.object)

\* Catch blocks that swallow every error.
npmRethrowsMutantNone(err) == FALSE

\* The two catch blocks of readNpmLockfile (lines 133, 138).
npmRethrows(err) == err.code # "ENOENT"

(***************************************************************************)
(* The inputs of the import command.                                       *)
(***************************************************************************)
\* The object with the one key k.
Single(k, v) == [x \in {k} |-> v]

\* yarn.lock objects: two ranges of one package; a package named constructor.
YarnObjects ==
    { [k \in {<<"a", "@", "1">>, <<"a", "@", "2">>} |->
          [version |-> IF k = <<"a", "@", "1">> THEN "1.0.0" ELSE "2.0.0"]],
      Single(constructor \o <<"@", "1">>, [version |-> "1.0.0"]) }

YarnSyntaxError == Err("SyntaxError", None, "Unknown token")

YarnFiles ==
    {None, Some(File(FALSE, ParseThrew(YarnSyntaxError))),
     Some(File(TRUE, ParseThrew(YarnSyntaxError)))}
    \cup { Some(File(TRUE, Parsed(t, o))) :
             t \in {"success", "merge", "conflict"}, o \in YarnObjects }

JSONError == Err("JSONError", None, "Unexpected token")

\* package-lock.json trees: a@1.0.0 with b@2.0.0 below it; constructor@1.0.0.
PackageLockTrees ==
    { LockedPackage("", Some(Single(<<"a">>, LockedPackage("1.0.0",
          Some(Single(<<"b">>, LockedPackage("2.0.0", None))))))),
      LockedPackage("", Some(Single(constructor, LockedPackage("1.0.0", None)))) }

\* npm-shrinkwrap.json trees: b@3.0.0; no dependencies key.
ShrinkwrapTrees ==
    { LockedPackage("", Some(Single(<<"b">>, LockedPackage("3.0.0", None)))),
      LockedPackage("", None) }

JsonFiles(trees) ==
    {None, Some(File(FALSE, ParseThrew(JSONError))),
     Some(File(TRUE, ParseThrew(JSONError)))}
    \cup { Some(File(TRUE, Parsed("json", t))) : t \in trees }

PnpmLockfiles == {None, Some(File(TRUE, Parsed("yaml", <<>>)))}

\* What handler reads of its options: dir, workspaceDir, and whether
\* selectedProjectsGraph (given, or selected by dir) is non-null.
ImportOpts ==
    { [dir |-> pkgPath, workspaceDir |-> w, selected |-> g] :
        w \in {None, Some(pkgPath)}, g \in BOOLEAN }

\* The read functions are not running.
ReaderOff ==
    /\ pc = "off"
    /\ fn = "none"
    /\ opts = NoOpts
    /\ lockfileNames = <<>>
    /\ tried = <<>>
    /\ result = NoResult
    /\ base = None
    /\ files = None
    /\ reads = <<>>
    /\ order = <<>>
    /\ thrown = None

\* handler is called in a directory holding any combination of the files.
InitImport ==
    /\ ReaderOff
    /\ PureOff
    /\ ipc = "rimraf"
    /\ iopts \in ImportOpts
    /\ \E p \in PnpmLockfiles, y \in YarnFiles,
          n \in JsonFiles(PackageLockTrees), w \in JsonFiles(ShrinkwrapTrees) :
          disk = [f \in { join(iopts.dir, name) :
                            name \in {WANTED_LOCKFILE} \cup ForeignLockfiles } |->
                    IF f = join(iopts.dir, WANTED_LOCKFILE) THEN p
                    ELSE IF f = join(iopts.dir, "yarn.lock") THEN y
                    ELSE IF f = join(iopts.dir, "package-lock.json") THEN n
                    ELSE w]
    /\ rimrafs = <<>>
    /\ probes = <<>>
    /\ fileReads = <<>>
    /\ extractions = <<>>
    /\ versionsByPackageNames = <<>>
    /\ preferredVersions = <<>>
    /\ installed = None
    /\ ierr = None

(***************************************************************************)
(* handler, one action per await.                                          *)
(***************************************************************************)
\* if in place of else if at line 60: the npm branch is tested after the
\* yarn extraction as well.
afterExtractionMutantIf(kind) ==
    IF kind = "yarn" THEN "existsPackageLock" ELSE "install"

\* The branches of lines 57-68 exclude each other: after either extraction
\* handler goes on at line 69.
afterExtraction(kind) == "install"

\* handler rejects with e.
Rejected(e) ==
    /\ ierr' = Some(e)
    /\ ipc' = "done"
    /\ UNCHANGED <<extractions, versionsByPackageNames, preferredVersions>>

\* Lines 59 and 65, then line 69: the extraction has filled
\* versionsByPackageNames (acc.map) or has thrown (acc.err).
Extracted(kind, acc) ==
    /\ extractions' = Append(extractions, kind)
    /\ versionsByPackageNames' = acc.map
    /\ IF acc.err # None
       THEN /\ ierr' = acc.err
            /\ ipc' = "done"
            /\ preferredVersions' = preferredVersions
       ELSE /\ ierr' = ierr
            /\ ipc' = afterExtraction(kind)
            /\ preferredVersions' =
                  IF afterExtraction(kind) = "install"
                  THEN getPreferredVersions(acc.map) ELSE preferredVersions

\* Line 54.  rimraf resolves when the file is gone or was never there; it
\* rejects when the file cannot be removed.
Rimraf ==
    /\ ipc = "rimraf"
    /\ \/ /\ disk' = rimraf(disk, join(iopts.dir, WANTED_LOCKFILE))
          /\ rimrafs' = Append(rimrafs, [path |-> join(iopts.dir, WANTED_LOCKFILE),
                                         was |-> disk[join(iopts.dir, WANTED_LOCKFILE)],
                                         error |-> None])
          /\ ipc' = "existsYarn"
          /\ ierr' = ierr
       \/ /\ disk[join(iopts.dir, WANTED_LOCKFILE)] # None
          /\ disk' = disk
          /\ rimrafs' = Append(rimrafs, [path |-> join(iopts.dir, WANTED_LOCKFILE),
                                         was |-> disk[join(iopts.dir, WANTED_LOCKFILE)],
                                         error |-> Some(EPERM(join(iopts.dir, WANTED_LOCKFILE)))])
          /\ ipc' = "done"
          /\ ierr' = Some(EPERM(join(iopts.dir, WANTED_LOCKFILE)))
    /\ UNCHANGED <<iopts, probes, fileReads, extractions,
                   versionsByPackageNames, preferredVersions, installed>>
    /\ UNCHANGED <<readerVars, pureVars>>

\* Line 57.
ExistsYarn ==
    /\ ipc = "existsYarn"
    /\ LET found == exists(disk, join(iopts.dir, "yarn.lock"))
       IN  /\ probes' = Append(probes, [file |-> "yarn.lock", found |-> found])
           /\ ipc' = IF found THEN "readYarnLockFile" ELSE "existsPackageLock"
    /\ UNCHANGED <<iopts, rimrafs, disk, fileReads, extractions, versionsByPackageNames,
                   preferredVersions, installed, ierr>>
    /\ UNCHANGED <<readerVars, pureVars>>

\* Lines 58-59, and 69.
ReadYarnLockFile ==
    /\ ipc = "readYarnLockFile"
    /\ fileReads' = Append(fileReads, [file |-> "yarn.lock",
                                       error |-> yarnTry(disk, iopts.dir),
                                       object |-> readYarnLockFile(disk, iopts.dir).object,
                                       content |-> disk[join(iopts.dir, "yarn.lock")]])
    /\ LET yarnPackgeLockFile == readYarnLockFile(disk, iopts.dir)
       IN  IF yarnPackgeLockFile.error # None
           THEN Rejected(yarnPackgeLockFile.error[1])
           ELSE Extracted("yarn",
                    getAllVersionsFromYarnLockFile(yarnPackgeLockFile.object, NoVersions))
    /\ UNCHANGED <<iopts, rimrafs, disk, probes, installed>>
    /\ UNCHANGED <<readerVars, pureVars>>

\* Line 61.
ExistsPackageLock ==
    /\ ipc = "existsPackageLock"
    /\ LET found == exists(disk, join(iopts.dir, "package-lock.json"))
       IN  /\ probes' = Append(probes, [file |-> "package-lock.json", found |-> found])
           /\ ipc' = IF found THEN "readPackageLock" ELSE "existsShrinkwrap"
    /\ UNCHANGED <<iopts, rimrafs, disk, fileReads, extractions, versionsByPackageNames,
                   preferredVersions, installed, ierr>>
    /\ UNCHANGED <<readerVars, pureVars>>

\* Line 62, and the else branch of line 67.
ExistsShrinkwrap ==
    /\ ipc = "existsShrinkwrap"
    /\ LET found == exists(disk, join(iopts.dir, "npm-shrinkwrap.json"))
       IN  /\ probes' = Append(probes, [file |-> "npm-shrinkwrap.json", found |-> found])
           /\ ipc' = IF found THEN "readPackageLock" ELSE "done"
           /\ ierr' = IF found THEN ierr
                      ELSE Some(PnpmError("LOCKFILE_NOT_FOUND", "No lockfile found"))
    /\ UNCHANGED <<iopts, rimrafs, disk, fileReads, extractions, versionsByPackageNames,
                   preferredVersions, installed>>
    /\ UNCHANGED <<readerVars, pureVars>>

\* readNpmLockfile, lines 130-134; on a value, lines 65 and 69.
ReadPackageLock ==
    /\ ipc = "readPackageLock"
    /\ LET npmPackageLock == loadJsonFile(disk, join(iopts.dir, "package-lock.json"))
       IN  /\ fileReads' = Append(fileReads, [file |-> "package-lock.json",
                                              error |-> npmPackageLock.error,
                                              object |-> npmPackageLock.object,
                                              content |-> disk[join(iopts.dir, "package-lock.json")]])
           /\ IF npmPackageLock.error = None
              THEN Extracted("npm",
                       getAllVersionsByPackageNames(npmPackageLock.object, NoVersions))
              ELSE IF npmRethrows(npmPackageLock.error[1])
              THEN Rejected(npmPackageLock.error[1])
              ELSE /\ ipc' = "readShrinkwrap"
                   /\ UNCHANGED <<ierr, extractions, versionsByPackageNames,
                                  preferredVersions>>
    /\ UNCHANGED <<iopts, rimrafs, disk, probes, installed>>
    /\ UNCHANGED <<readerVars, pureVars>>

\* readNpmLockfile, lines 135-140; on a value, lines 65 and 69.
ReadShrinkwrap ==
    /\ ipc = "readShrinkwrap"
    /\ LET npmPackageLock == loadJsonFile(disk, join(iopts.dir, "npm-shrinkwrap.json"))
       IN  /\ fileReads' = Append(fileReads, [file |-> "npm-shrinkwrap.json",
                                              error |-> npmPackageLock.error,
                                              object |-> npmPackageLock.object,
                                              content |-> disk[join(iopts.dir, "npm-shrinkwrap.json")]])
           /\ IF npmPackageLock.error = None
              THEN Extracted("npm",
                       getAllVersionsByPackageNames(npmPackageLock.object, NoVersions))
              ELSE IF npmRethrows(npmPackageLock.error[1])
              THEN Rejected(npmPackageLock.error[1])
              ELSE Rejected(PnpmError("NPM_LOCKFILE_NOT_FOUND",
                       "No package-lock.json or npm-shrinkwrap.json found"))
    /\ UNCHANGED <<iopts, rimrafs, disk, probes, installed>>
    /\ UNCHANGED <<readerVars, pureVars>>

\* Lines 72-111: recursive, for a workspace with a selected project;
\* nothing, for a workspace without one; install otherwise.  Only what the
\* two are given is kept.
Install ==
    /\ ipc = "install"
    /\ installed' =
          IF iopts.workspaceDir # None
          THEN IF iopts.selected
               THEN Some([by |-> "recursive", lockfileOnly |-> TRUE,
                          preferredVersions |-> preferredVersions])
               ELSE None
          ELSE Some([by |-> "install", lockfileOnly |-> TRUE,
                     preferredVersions |-> preferredVersions])
    /\ ipc' = "done"
    /\ UNCHANGED <<iopts, rimrafs, disk, probes, fileReads, extractions,
                   versionsByPackageNames, preferredVersions, ierr>>
    /\ UNCHANGED <<readerVars, pureVars>>

\* Another process removes a foreign lock file while handler is running.
OtherProcessRemoves(name) ==
    /\ ipc \notin {"off", "done"}
    /\ disk[join(iopts.dir, name)] # None
    /\ disk' = [disk EXCEPT ![join(iopts.dir, name)] = None]
    /\ UNCHANGED <<ipc, iopts, rimrafs, probes, fileReads, extractions,
                   versionsByPackageNames, preferredVersions, installed, ierr>>
    /\ UNCHANGED <<readerVars, pureVars>>

NextImport ==
    \/ Rimraf
    \/ ExistsYarn
    \/ ReadYarnLockFile
    \/ ExistsPackageLock
    \/ ExistsShrinkwrap
    \/ ReadPackageLock
    \/ ReadShrinkwrap
    \/ Install
    \/ \E name \in ForeignLockfiles : OtherProcessRemoves(name)

SpecImport == InitImport /\ [][NextImport]_vars

(***************************************************************************)
(* Properties of the import command.                                       *)
(***************************************************************************)
NpmLockfiles == {"package-lock.json", "npm-shrinkwrap.json"}

\* exists(name) was called and gave found.
Probed(name, found) ==
    \E i \in 1..Len(probes) : probes[i] = [file |-> name, found |-> found]

FilesRead == { fileReads[i].file : i \in 1..Len(fileReads) }
Extractions == { extractions[i] : i \in 1..Len(extractions) }

LockfileNotFound == PnpmError("LOCKFILE_NOT_FOUND", "No lockfile found")

\* C11: handler selects exactly one foreign source per invocation.  When
\* yarn.lock exists, only the yarn extraction runs, no npm-style file is
\* probed or read, also when package-lock.json or npm-shrinkwrap.json exist.
\* Otherwise, when package-lock.json or npm-shrinkwrap.json exists, only the
\* npm extraction runs.  When none of the three exists, handler fails with
\* LOCKFILE_NOT_FOUND and neither an extraction nor an install runs.
C11_OneForeignSource ==
    /\ Len(extractions) <= 1
    /\ (ipc = "install" \/ installed # None) => Len(extractions) = 1
    /\ Probed("yarn.lock", TRUE) =>
          /\ Len(probes) = 1
          /\ Extractions \subseteq {"yarn"}
          /\ FilesRead \subseteq {"yarn.lock"}
    /\ (\E name \in NpmLockfiles : Probed(name, TRUE)) =>
          /\ Probed("yarn.lock", FALSE)
          /\ Extractions \subseteq {"npm"}
          /\ FilesRead \subseteq NpmLockfiles
    /\ (\A name \in ForeignLockfiles : Probed(name, FALSE)) =>
          /\ ipc = "done"
          /\ ierr = Some(LockfileNotFound)
          /\ extractions = <<>>
          /\ fileReads = <<>>
          /\ installed = None
    /\ ierr = Some(LockfileNotFound) =>
          \A name \in ForeignLockfiles : Probed(name, FALSE)

\* yarn.lock and package-lock.json both exist; the yarn extraction alone ran
\* and its versions were installed.
C11_Witness ==
    /\ Probed("yarn.lock", TRUE)
    /\ disk[join(iopts.dir, "package-lock.json")] # None
    /\ extractions = <<"yarn">>
    /\ installed # None
    /\ ierr = None

(***************************************************************************)
(* getAllVersionsByPackageNames and getPreferredVersions on npm trees.     *)
(***************************************************************************)
\* The number of levels of dependencies below the root of a tree.
MaxDepth == 3

NpmNames == {<<"a">>, constructor}
NpmVersions == {"1.0.0", "2.0.0"}

\* The nodes with at most depth levels below them; a node below the root
\* has at most one dependency.
RECURSIVE LockedPackages(_)
LockedPackages(depth) ==
    { LockedPackage(v, None) : v \in NpmVersions }
    \cup IF depth = 0 THEN {}
         ELSE { LockedPackage(v, Some(Single(n, c))) :
                  v \in NpmVersions, n \in NpmNames, c \in LockedPackages(depth - 1) }

\* The trees: no dependencies key, an empty one, and every mapping of one
\* or two names to nodes.
NpmPackageLocks ==
    { LockedPackage("", None), LockedPackage("", Some(<<>>)) }
    \cup { LockedPackage("", Some(m)) :
             m \in UNION { [S -> LockedPackages(MaxDepth - 1)] :
                             S \in (SUBSET NpmNames) \ {{}} } }

\* What lines 55, 65 and 69 of handler give for a tree: the error thrown,
\* or preferredVersions.
Preferred(acc) ==
    IF acc.err # None
    THEN [error |-> acc.err, preferredVersions |-> <<>>]
    ELSE [error |-> None, preferredVersions |-> getPreferredVersions(acc.map)]

InitNpm ==
    /\ ReaderOff
    /\ ImportOff
    /\ fnArg \in NpmPackageLocks
    /\ fnOut = <<>>

PreferredVersionsOfTree ==
    /\ fnOut = <<>>
    /\ fnOut' = <<Preferred(getAllVersionsByPackageNames(fnArg, NoVersions))>>
    /\ UNCHANGED <<fnArg, readerVars, importVars>>

SpecNpm == InitNpm /\ [][PreferredVersionsOfTree]_vars

\* Some node of the tree below node appears under name with version.
RECURSIVE Occurs(_, _, _)
Occurs(node, name, version) ==
    /\ node.dependencies # None
    /\ \E k \in DOMAIN node.dependencies[1] :
          \/ k = name /\ node.dependencies[1][k].version = version
          \/ Occurs(node.dependencies[1][k], name, version)

\* C12: for every npm tree, the preferred versions built from it hold an
\* entry (name, version) if and only if some node at any depth of the tree
\* appears under that name with that version, and every entry's value is
\* the literal "version".
C12_PreferredVersionsOfTree ==
    fnOut # <<>> =>
        /\ fnOut[1].error = None
        /\ \A name \in NpmNames, version \in NpmVersions :
              (/\ name \in DOMAIN fnOut[1].preferredVersions
               /\ version \in DOMAIN fnOut[1].preferredVersions[name])
              <=> Occurs(fnArg, name, version)
        /\ \A name \in DOMAIN fnOut[1].preferredVersions :
              \A version \in DOMAIN fnOut[1].preferredVersions[name] :
                  fnOut[1].preferredVersions[name][version] = "version"

(***************************************************************************)
(* getAllVersionsFromYarnLockFile on yarn objects.                         *)
(***************************************************************************)
\* The length of the longest generated key.
MaxKeyLen == 4

\* The strings over "@", "a", "1" of length 1..n.
RECURSIVE Strings(_)
Strings(n) ==
    IF n = 0 THEN {<<>>}
    ELSE Strings(n - 1)
         \cup { Append(s, c) : s \in Strings(n - 1), c \in {"@", "a", "1"} }

\* The keys of a yarn object, "<name>@<range>": the generated strings that
\* hold an "@", among them the scoped "@a@1"; and "constructor@1".
YarnKeys ==
    { s \in Strings(MaxKeyLen) : \E i \in 1..Len(s) : s[i] = "@" }
    \cup { constructor \o <<"@", "1">> }

\* The yarn objects of one or two keys.
YarnPackageLocks ==
    { Single(k, [version |-> "1.0.0"]) : k \in YarnKeys }
    \cup { [k \in {k1, k2} |-> [version |-> IF k = k1 THEN "1.0.0" ELSE v]] :
             k1 \in YarnKeys, k2 \in YarnKeys, v \in NpmVersions }

InitYarn ==
    /\ ReaderOff
    /\ ImportOff
    /\ fnArg \in YarnPackageLocks
    /\ fnOut = <<>>

VersionsOfYarnLock ==
    /\ fnOut = <<>>
    /\ fnOut' = <<getAllVersionsFromYarnLockFile(fnArg, NoVersions)>>
    /\ UNCHANGED <<fnArg, readerVars, importVars>>

SpecYarn == InitYarn /\ [][VersionsOfYarnLock]_vars

\* The part of key before its last "@".
BeforeLastAt(key) ==
    CHOOSE name \in { SubSeq(key, 1, i) : i \in 0..Len(key) } :
        \E range \in { SubSeq(key, i, Len(key)) : i \in 1..(Len(key) + 1) } :
            /\ key = name \o <<"@">> \o range
            /\ \A i \in 1..Len(range) : range[i] # "@"

\* C13: for every yarn object, each entry's version is recorded under the
\* part of its key before the last "@", and the keys that share that name
\* accumulate their versions in one set.
C13_NameBeforeLastAt ==
    fnOut # <<>> =>
        /\ fnOut[1].err = None
        /\ DOMAIN fnOut[1].map = { BeforeLastAt(key) : key \in DOMAIN fnArg }
        /\ \A name \in DOMAIN fnOut[1].map :
              fnOut[1].map[name] =
                  { fnArg[key].version :
                      key \in { k \in DOMAIN fnArg : BeforeLastAt(k) = name } }

(***************************************************************************)
(* The migration of _read (lines 134-148) on parsed documents.             *)
(***************************************************************************)
\* How many times the migration is applied to a document in a row.
MaxRuns == 2

\* What a root key can hold: nothing (no such key), null, or a mapping.
FieldValues(mapping) == {None, Some(Null), Some(mapping)}

\* The parsed documents: every combination of the legacy root keys, with
\* and without an importers key; and the empty text's undefined.
ParsedDocs ==
    {None}
    \cup { Some([lockfileVersion |-> Some(<<5, 4>>),
                 importers |-> i,
                 packages |-> Some([A |-> "v1"]),
                 specifiers |-> s,
                 dependenciesMeta |-> m,
                 optionalDependencies |-> o,
                 dependencies |-> d,
                 devDependencies |-> v]) :
             i \in {None, ImportersBase},
             s \in FieldValues([foo |-> "^1.0.0", bar |-> "^3.0.0", baz |-> "^4.0.0"]),
             m \in {None, Some([foo |-> "injected"])},
             o \in FieldValues([baz |-> "4.0.0"]),
             d \in FieldValues([foo |-> "1.0.0"]),
             v \in FieldValues([bar |-> "3.0.0"]) }

InitMigrate ==
    /\ ReaderOff
    /\ ImportOff
    /\ fnArg \in ParsedDocs
    /\ fnOut = <<>>

\* The migration applied to the document, or to its own last result.
Migrate ==
    /\ Len(fnOut) < MaxRuns
    /\ fnOut' = Append(fnOut, migrate(IF fnOut = <<>> THEN fnArg ELSE fnOut[Len(fnOut)]))
    /\ UNCHANGED <<fnArg, readerVars, importVars>>

SpecMigrate == InitMigrate /\ [][Migrate]_vars

\* The key is there and its value is not null.
HoldsValue(value) == value \notin {None, Some(Null)}

\* The document has a specifiers key at its root.
IsLegacy(lockfile) == lockfile # None /\ lockfile[1].specifiers # None

\* C14: the migration is idempotent: applied again to its own result it
\* gives that result, for legacy-shaped and current-shaped documents alike;
\* and applied to a document without a root specifiers key it changes nothing.
C14_MigrationIdempotent ==
    /\ \A i \in 2..Len(fnOut) : fnOut[i] = fnOut[1]
    /\ (fnOut # <<>> /\ ~IsLegacy(fnArg)) => fnOut[1] = fnArg

\* A legacy document with a dependency mapping at its root was migrated
\* twice: the first run changed it, the second did not.
C14_Witness ==
    /\ Len(fnOut) = 2
    /\ IsLegacy(fnArg)
    /\ HoldsValue(fnArg[1].dependencies)
    /\ fnOut[1] # fnArg
    /\ fnOut[2] = fnOut[1]

DepTypes == { DEPENDENCIES_FIELDS[i] : i \in 1..Len(DEPENDENCIES_FIELDS) }

\* importers['.'] of a migrated document.
RootImporter(lockfile) == lockfile[1].importers[1]["."]

\* C15, as stated: after the migration of a legacy-shaped document,
\* importers['.'] holds the root's specifiers, dependenciesMeta and every
\* dependency mapping that was at the root, and neither specifiers nor any
\* key of DEPENDENCIES_FIELDS remains at the root.
C15_NoLegacyFieldRemains ==
    (fnOut # <<>> /\ IsLegacy(fnArg)) =>
        /\ RootImporter(fnOut[1]).specifiers = fnArg[1].specifiers
        /\ RootImporter(fnOut[1]).dependenciesMeta = fnArg[1].dependenciesMeta
        /\ \A depType \in DepTypes :
              HoldsValue(fnArg[1][depType]) =>
                  RootImporter(fnOut[1])[depType] = fnArg[1][depType]
        /\ fnOut[1][1].specifiers = None
        /\ \A depType \in DepTypes : fnOut[1][1][depType] = None

\* C15, amended: after the migration of a legacy-shaped document,
\* importers['.'] holds the root's specifiers, dependenciesMeta and every
\* dependency mapping that was at the root; specifiers and every key of
\* DEPENDENCIES_FIELDS that held a mapping are gone from the root; a key of
\* DEPENDENCIES_FIELDS whose root value was null stays at the root with its
\* null and is not copied.
C15_NoLegacyMappingRemains ==
    (fnOut # <<>> /\ IsLegacy(fnArg)) =>
        /\ RootImporter(fnOut[1]).specifiers = fnArg[1].specifiers
        /\ RootImporter(fnOut[1]).dependenciesMeta = fnArg[1].dependenciesMeta
        /\ fnOut[1][1].specifiers = None
        /\ \A depType \in DepTypes :
              IF HoldsValue(fnArg[1][depType])
              THEN /\ RootImporter(fnOut[1])[depType] = fnArg[1][depType]
                   /\ fnOut[1][1][depType] = None
              ELSE /\ RootImporter(fnOut[1])[depType] = None
                   /\ fnOut[1][1][depType] = fnArg[1][depType]

\* A legacy document with a null dependencies key and a devDependencies
\* mapping was migrated.
C15_Witness ==
    /\ fnOut # <<>>
    /\ IsLegacy(fnArg)
    /\ fnArg[1].dependencies = Some(Null)
    /\ HoldsValue(fnArg[1].devDependencies)
    /\ HoldsValue(fnArg[1].specifiers)
    /\ fnArg[1].dependenciesMeta # None

NpmLockfileNotFound ==
    PnpmError("NPM_LOCKFILE_NOT_FOUND", "No package-lock.json or npm-shrinkwrap.json found")

\* The i-th file read was of name and failed with not-found.
ReadNotFound(i, name) ==
    /\ i \in 1..Len(fileReads)
    /\ fileReads[i].file = name
    /\ fileReads[i].error = Some(ENOENT(join(iopts.dir, name)))

\* The npm extraction ran on the object the i-th read gave, and on nothing else.
UsedRead(i) ==
    /\ extractions = <<"npm">>
    /\ versionsByPackageNames =
          getAllVersionsByPackageNames(fileReads[i].object, NoVersions).map
    /\ i = Len(fileReads)

\* C16: readNpmLockfile reads package-lock.json and then npm-shrinkwrap.json.
\* package-lock.json is used whenever it can be read; npm-shrinkwrap.json is
\* read only after package-lock.json failed with not-found, and then it is
\* read; NPM_LOCKFILE_NOT_FOUND is raised exactly when both reads failed
\* with not-found; any other failure of either read is what handler rejects
\* with, and no further file is read.
C16_NpmReadOrder ==
    /\ \A i \in 1..Len(fileReads) :
          /\ fileReads[i].file = "npm-shrinkwrap.json" =>
                ReadNotFound(i - 1, "package-lock.json")
          /\ ReadNotFound(i, "package-lock.json") =>
                \/ ipc = "readShrinkwrap" /\ i = Len(fileReads) /\ ierr = None
                \/ i + 1 = Len(fileReads) /\ fileReads[i + 1].file = "npm-shrinkwrap.json"
          /\ (fileReads[i].file \in NpmLockfiles /\ fileReads[i].error = None) =>
                UsedRead(i)
          /\ (/\ fileReads[i].file \in NpmLockfiles
              /\ fileReads[i].error # None
              /\ fileReads[i].error[1].code # "ENOENT") =>
                /\ ierr = fileReads[i].error
                /\ ipc = "done"
                /\ i = Len(fileReads)
                /\ extractions = <<>>
    /\ ierr = Some(NpmLockfileNotFound) <=>
          \E i \in 1..Len(fileReads) :
              ReadNotFound(i, "package-lock.json") /\ ReadNotFound(i + 1, "npm-shrinkwrap.json")

\* Both files were gone when they were read, one of them after its probe had
\* found it: handler rejected with NPM_LOCKFILE_NOT_FOUND.
C16_Witness ==
    /\ \E name \in NpmLockfiles : Probed(name, TRUE)
    /\ ReadNotFound(1, "package-lock.json")
    /\ ReadNotFound(2, "npm-shrinkwrap.json")
    /\ ierr = Some(NpmLockfileNotFound)
    /\ ipc = "done"

YarnLockfileNotFound == PnpmError("YARN_LOCKFILE_NOT_FOUND", "No yarn.lock found")

\* handler rejected with e and neither extracted nor installed anything.
FailedWith(e) ==
    /\ ierr = Some(e)
    /\ ipc = "done"
    /\ extractions = <<>>
    /\ versionsByPackageNames = <<>>
    /\ installed = None

\* C17: when yarn.lock passed the existence probe and is gone when it is
\* read, handler fails with YARN_LOCKFILE_NOT_FOUND: no npm-style file is
\* probed or read, also when one exists, and nothing is extracted.  When
\* yarn.lock is read and the parser returns a type other than success,
\* handler fails with GET_YARN_LOCKFILE_ERR and not with
\* YARN_LOCKFILE_NOT_FOUND.
C17_YarnGoneAtRead ==
    \A i \in 1..Len(fileReads) :
        fileReads[i].file = "yarn.lock" =>
            /\ Probed("yarn.lock", TRUE)
            /\ fileReads[i].content = None =>
                  /\ FailedWith(YarnLockfileNotFound)
                  /\ Len(probes) = 1
                  /\ Len(fileReads) = 1
            /\ (/\ fileReads[i].content # None
                /\ fileReads[i].content[1].readable
                /\ fileReads[i].content[1].parsed.error = None
                /\ fileReads[i].content[1].parsed.type # "success") =>
                  /\ FailedWith(PnpmError("GET_YARN_LOCKFILE_ERR",
                        "Failed With " \o fileReads[i].content[1].parsed.type))
                  /\ ierr # Some(YarnLockfileNotFound)

\* yarn.lock was found by the probe and removed before the read, while
\* package-lock.json is still there: handler rejected with
\* YARN_LOCKFILE_NOT_FOUND.
C17_Witness ==
    /\ Probed("yarn.lock", TRUE)
    /\ fileReads # <<>>
    /\ fileReads[1].file = "yarn.lock"
    /\ fileReads[1].content = None
    /\ disk[join(iopts.dir, "package-lock.json")] # None
    /\ ierr = Some(YarnLockfileNotFound)

\* The errors of the import command that tell of a missing or unparsable
\* foreign lock file.
IsImportFailure(e) ==
    \/ e \in {LockfileNotFound, YarnLockfileNotFound, NpmLockfileNotFound}
    \/ e.code = "ERR_PNPM_GET_YARN_LOCKFILE_ERR"

\* C20: handler removes the pnpm lockfile of the directory before it probes
\* for a foreign lock file: once a probe was made, and whenever handler has
\* failed with LOCKFILE_NOT_FOUND, YARN_LOCKFILE_NOT_FOUND,
\* NPM_LOCKFILE_NOT_FOUND or GET_YARN_LOCKFILE_ERR, rimraf was called on
\* pnpm-lock.yaml first and the file is gone.
C20_LockfileRemovedFirst ==
    (probes # <<>> \/ (ierr # None /\ IsImportFailure(ierr[1]))) =>
        /\ Len(rimrafs) = 1
        /\ rimrafs[1].path = join(iopts.dir, WANTED_LOCKFILE)
        /\ rimrafs[1].error = None
        /\ disk[join(iopts.dir, WANTED_LOCKFILE)] = None

\* The directory had a pnpm lockfile and no foreign lock file: the import
\* failed with LOCKFILE_NOT_FOUND and the pnpm lockfile is gone.
C20_Witness ==
    /\ rimrafs # <<>>
    /\ rimrafs[1].was # None
    /\ ierr = Some(LockfileNotFound)
    /\ disk[join(iopts.dir, WANTED_LOCKFILE)] = None

(***************************************************************************)
(* Further properties of the read functions.                               *)
(***************************************************************************)
\* The reads of branch lockfiles made so far.
BranchAttempts == { reads[k][1] : k \in { i \in 1..Len(reads) : reads[i] # None } }

\* The text has conflict markers and yaml.load rejects it.
ConflictText(a) == ParseFailed(a) /\ a.io.text.isDiff

\* C18, as stated: the branch lockfiles are read with the read options of
\* the base read: in readWantedLockfileAndAutofixConflicts a branch lockfile
\* whose text has conflict markers and fails to parse is read with
\* autofixMergeConflicts set, as the base was, and is resolved instead of
\* failing with BROKEN_LOCKFILE.
C18_BranchConflictsResolved ==
    \A a \in BranchAttempts :
        (autofixOf(fn) /\ ConflictText(a)) =>
            /\ a.opts = tried[Len(tried)].opts
            /\ a.res.resolved
            /\ a.res.err # Some(BrokenLockfile(a.path, a.io.text.load.err[1].message))

\* C19: in every result of _read and of
\* readWantedLockfileAndAutofixConflicts, hadConflicts = true implies a
\* lockfile that is not null and a read with autofixMergeConflicts set; a
\* result without lockfile (file not found, or incompatible version ignored)
\* has hadConflicts = false, also when the conflicts were resolved before the
\* version check rejected the document.
C19_ConflictsImplyLockfile ==
    /\ \A a \in Attempts :
          a.res.err = None =>
              /\ a.res.hadConflicts =>
                    /\ a.res.lockfile # None
                    /\ a.opts.autofixMergeConflicts
                    /\ a.res.resolved
              /\ a.res.lockfile = None => ~a.res.hadConflicts
    /\ (pc = "done" /\ thrown = None) =>
          /\ result.hadConflicts => (result.lockfile # None /\ autofixOf(fn))
          /\ result.lockfile = None => ~result.hadConflicts

\* readWantedLockfileAndAutofixConflicts resolved the conflicts of a text,
\* the version check rejected the resolved document, and the incompatible
\* lockfile was ignored: the result has no lockfile and hadConflicts = false.
C19_Witness ==
    /\ pc = "done"
    /\ thrown = None
    /\ autofixOf(fn)
    /\ \E a \in Attempts :
          /\ a.res.resolved
          /\ a.io.text.autofix.err = None
          /\ a.io.text.autofix.value # None
          /\ IsAbsent(a.res)
          /\ ~a.res.hadConflicts
    /\ result.lockfile = None
    /\ ~result.hadConflicts

====
